---- MODULE Spec2Model ----
(***************************************************************************)
(* tdepend: dependency graph, cycle detector (Tarjan SCC) and metrics.     *)
(*                                                                         *)
(* A run is: new DependencyGraph(modules); detectCycles(graph);            *)
(* computeAllMetrics(graph, modules, cycles) (or computeCouplingMetrics).  *)
(* detectCycles is modelled call by call: `frames` is the native call      *)
(* stack of strongConnect activations.                                     *)
(***************************************************************************)
EXTENDS Integers, Sequences, FiniteSets, TLC

(* ---------------------------- bounds ----------------------------------- *)

\* total number of module records plus import entries of a free-form list
MaxSize == 4
MaxCliSize == 3
MaxCliEdges == 2
\* number of distinct import pairs of a graph-shaped list
MaxEdges == 5
\* number of classes, interfaces and exports declared by a typed list
MaxTypes == 2
\* number of classes, and of interfaces, of a module handed to computeAbstractness
MaxDeclared == 2
\* largest Ca and Ce handed to computeInstability
MaxCoupling == 4
\* largest denominator of a number handed to computeDistance
MaxDen == 4
MaxCycleLen == 4

(* ------------------------ identifiers, inputs -------------------------- *)

\* file paths, in a fixed enumeration order
IdSeq == <<"a", "b", "c", "d">>

Ids == {IdSeq[i] : i \in 1..Len(IdSeq)}

Range(s) == {s[i] : i \in 1..Len(s)}

SeqsUpTo(S, n) == UNION {[1..k -> S] : k \in 0..n}

\* a ParsedModule with no exports and no types
CreateModule(filePath, imports) ==
  [filePath |-> filePath, imports |-> imports, exports |-> <<>>,
   classes |-> <<>>, interfaces |-> 0, totalTypes |-> 0]

\* every module list with (records + import entries) <= size: any order,
\* repeated records, repeated imports, self imports, dangling imports
RECURSIVE FreeLists(_)
FreeLists(size) ==
  IF size <= 0 THEN {<<>>}
  ELSE {<<>>} \cup
       UNION {{<<CreateModule(fp, imps)>> \o rest :
                  rest \in FreeLists(size - 1 - Len(imps))} :
              fp \in Ids, imps \in SeqsUpTo(Ids, size - 1)}

\* one record per identifier, importing the targets of that identifier in E
GraphList(E) ==
  [i \in 1..Len(IdSeq) |->
     CreateModule(IdSeq[i], SelectSeq(IdSeq, LAMBDA t : <<IdSeq[i], t>> \in E))]

GraphLists == {GraphList(E) : E \in {F \in SUBSET (Ids \X Ids) : Cardinality(F) <= MaxEdges}}

\* a ParsedModule as parseSourceFile builds it: totalTypes is derived
ParsedModule(filePath, imports, exports, classes, interfaces) ==
  [filePath |-> filePath, imports |-> imports, exports |-> exports,
   classes |-> classes, interfaces |-> interfaces,
   totalTypes |-> Len(classes) + interfaces]

\* classes, interface count and exports of a module, at most t entries in all
Profiles(t) ==
  {p \in [classes : SeqsUpTo({[isAbstract |-> TRUE], [isAbstract |-> FALSE]}, t),
          interfaces : 0..t,
          exports : SeqsUpTo({"X"}, t)] :
     Len(p.classes) + p.interfaces + Len(p.exports) <= t}

TypedModules ==
  {ParsedModule(fp, imps, p.exports, p.classes, p.interfaces) :
     fp \in {"a", "b"}, imps \in SeqsUpTo({"a", "b", "c"}, 1), p \in Profiles(MaxTypes)}

Weight(m) == Len(m.classes) + m.interfaces + Len(m.exports)

\* one or two records that declare types and exports, MaxTypes entries in all
TypedLists ==
  {<<m>> : m \in TypedModules} \cup
  {<<pr[1], pr[2]>> : pr \in {q \in TypedModules \X TypedModules :
                                Weight(q[1]) + Weight(q[2]) <= MaxTypes}}

ModuleLists == FreeLists(MaxSize) \cup GraphLists \cup TypedLists

\* what parseProject gives a command line run that found files: one record per
\* file, so at least one record
CliLists ==
  (FreeLists(MaxCliSize) \cup
   {GraphList(E) : E \in {F \in SUBSET (Ids \X Ids) : Cardinality(F) <= MaxCliEdges}})
    \ {<<>>}

(* --------------------------- DependencyGraph --------------------------- *)

\* Set.prototype.add on an insertion-ordered set
SetAdd(s, x) == IF x \in Range(s) THEN s ELSE Append(s, x)

\* Map.prototype.has on the nodes map
HasNode(nodes, filePath) == \E i \in 1..Len(nodes) : nodes[i].filePath = filePath

\* mutant: the node is set without the has() test
addNodeAlways(nodes, filePath) ==
  Append(nodes, [filePath |-> filePath, dependencies |-> <<>>, dependents |-> <<>>])

addNode(nodes, filePath) ==
  IF ~HasNode(nodes, filePath)
  THEN Append(nodes, [filePath |-> filePath, dependencies |-> <<>>, dependents |-> <<>>])
  ELSE nodes

\* mutant: the dependent side of the edge is not recorded
addEdgeOneWay(nodes, from, to) ==
  LET n1 == addNode(addNode(nodes, from), to)
  IN  [i \in 1..Len(n1) |->
         IF n1[i].filePath = from
         THEN [n1[i] EXCEPT !.dependencies = SetAdd(@, to)]
         ELSE n1[i]]

\* mutant: the edge sets are arrays, push instead of Set.add
addEdgePush(nodes, from, to) ==
  LET n1 == addNode(addNode(nodes, from), to)
      n2 == [i \in 1..Len(n1) |->
               IF n1[i].filePath = from
               THEN [n1[i] EXCEPT !.dependencies = Append(@, to)]
               ELSE n1[i]]
  IN  [i \in 1..Len(n2) |->
         IF n2[i].filePath = to
         THEN [n2[i] EXCEPT !.dependents = Append(@, from)]
         ELSE n2[i]]

\* mutant: an import of the module itself adds no edge
addEdgeNoSelf(nodes, from, to) ==
  IF from = to THEN addNode(nodes, from)
  ELSE
  LET n1 == addNode(addNode(nodes, from), to)
      n2 == [i \in 1..Len(n1) |->
               IF n1[i].filePath = from
               THEN [n1[i] EXCEPT !.dependencies = SetAdd(@, to)]
               ELSE n1[i]]
  IN  [i \in 1..Len(n2) |->
         IF n2[i].filePath = to
         THEN [n2[i] EXCEPT !.dependents = SetAdd(@, from)]
         ELSE n2[i]]

addEdge(nodes, from, to) ==
  LET n1 == addNode(addNode(nodes, from), to)
      n2 == [i \in 1..Len(n1) |->
               IF n1[i].filePath = from
               THEN [n1[i] EXCEPT !.dependencies = SetAdd(@, to)]
               ELSE n1[i]]
  IN  [i \in 1..Len(n2) |->
         IF n2[i].filePath = to
         THEN [n2[i] EXCEPT !.dependents = SetAdd(@, from)]
         ELSE n2[i]]

\* first loop of the constructor
RECURSIVE AddModuleNodes(_, _)
AddModuleNodes(nodes, mods) ==
  IF mods = <<>> THEN nodes
  ELSE AddModuleNodes(addNode(nodes, Head(mods).filePath), Tail(mods))

\* inner loop of the constructor's second loop
RECURSIVE AddImportEdges(_, _, _)
AddImportEdges(nodes, from, imports) ==
  IF imports = <<>> THEN nodes
  ELSE AddImportEdges(addEdge(nodes, from, Head(imports)), from, Tail(imports))

\* second loop of the constructor
RECURSIVE AddModuleEdges(_, _)
AddModuleEdges(nodes, mods) ==
  IF mods = <<>> THEN nodes
  ELSE AddModuleEdges(AddImportEdges(nodes, Head(mods).filePath, Head(mods).imports),
                      Tail(mods))

DependencyGraph(mods) == AddModuleEdges(AddModuleNodes(<<>>, mods), mods)

\* Map.get: <<>> is undefined, <<node>> the node
getNode(nodes, filePath) == SelectSeq(nodes, LAMBDA n : n.filePath = filePath)

getAllNodes(nodes) == nodes

(* ------------------------------- numbers ------------------------------- *)

RECURSIVE GCD(_, _)
GCD(a, b) == IF b = 0 THEN a ELSE GCD(b, a % b)

\* the number n / d (d > 0), as a fraction in lowest terms
Ratio(n, d) == LET g == GCD(n, d) IN [num |-> n \div g, den |-> d \div g]

Zero == Ratio(0, 1)

One == Ratio(1, 1)

\* mutant: a distance equal to the threshold counts as exceeding it
GreaterOrEqual(x, y) == x.num * y.den >= y.num * x.den

\* x > y on numbers
Greater(x, y) == x.num * y.den > y.num * x.den

(* ----------------------------- configuration --------------------------- *)

\* the part of a TDependConfig the report reads
Config(distance, failOnCycle, failOnThreshold) ==
  [metrics |-> [thresholds |-> [distance |-> distance]],
   ci |-> [failOnCycle |-> failOnCycle, failOnThreshold |-> failOnThreshold,
           outputFormat |-> "console"]]

defaultConfig == Config(Ratio(6, 10), FALSE, TRUE)

\* distance thresholds of the schema's range 0..1, the default among them
Thresholds == {Zero, defaultConfig.metrics.thresholds.distance, One}

Configs == {Config(d, c, t) : d \in Thresholds, c \in BOOLEAN, t \in BOOLEAN}

\* the configurations of a command line run: ci.outputFormat is console or json
CliConfigs ==
  {[c EXCEPT !.ci.outputFormat = f] : c \in Configs, f \in {"console", "json"}}

(* ------------------------------ variables ------------------------------ *)

VARIABLES
  modules,    \* the ParsedModule[] of the run
  pc,         \* position of the run
  graph,      \* the nodes map of the DependencyGraph, in insertion order
  state,      \* TarjanState
  frames,     \* native call stack of strongConnect: [node, pos]
  loopPos,    \* position of detectCycles' for loop in allNodes
  entered,    \* number of times strongConnect was entered, per identifier
  cycles,     \* result of detectCycles
  metrics,    \* result of computeAllMetrics
  coupling,   \* result of computeCouplingMetrics: <<>> before the call, <<result>> after
  config,     \* the TDependConfig handed to generateReport
  report,     \* result of generateReport: <<>> before the call, <<report>> after
  calc,       \* the last direct call of a metric function: arguments and result
  first,      \* results of the first run once the pipeline is run again, else <<>>
  options,    \* AnalyzeOptions of the command line: is --export/--output given
  exitCode,   \* process.exitCode: <<>> while unset, else <<code>>
  stdout,     \* the reports printed by the command line run
  result,     \* what runAnalysis returned: <<>> for null, else <<AnalysisResult>>
  exportFile, \* the file exportToFile wrote: <<>> while not written
  raised      \* an exception reached the catch of the analyze action

vars == <<modules, pc, graph, state, frames, loopPos, entered, cycles, metrics, coupling,
          config, report, calc, first, options, exitCode, stdout, result, exportFile,
          raised>>

cliVars == <<options, exitCode, stdout, result, exportFile, raised>>

EmptyState ==
  [index |-> 0, stack |-> <<>>, indices |-> <<>>, lowLinks |-> <<>>,
   onStack |-> {}, components |-> <<>>]

Init ==
  /\ modules = <<>>
  /\ pc = "start"
  /\ graph = <<>>
  /\ state = EmptyState
  /\ frames = <<>>
  /\ loopPos = 1
  /\ entered = [n \in Ids |-> 0]
  /\ cycles = <<>>
  /\ metrics = <<>>
  /\ coupling = <<>>
  /\ config = defaultConfig
  /\ report = <<>>
  /\ calc = [fn |-> "none"]
  /\ first = <<>>
  /\ options = [export |-> FALSE]
  /\ exitCode = <<>>
  /\ stdout = <<>>
  /\ result = <<>>
  /\ exportFile = <<>>
  /\ raised = FALSE

\* parseProject hands over the module list of the run
ParseProject ==
  /\ pc = "start"
  /\ modules' \in ModuleLists
  /\ pc' = "parsed"
  /\ UNCHANGED <<graph, state, frames, loopPos, entered, cycles, metrics, coupling, config, report, calc, first, cliVars>>

\* new DependencyGraph(modules)
Construct ==
  /\ pc = "parsed"
  /\ graph' = DependencyGraph(modules)
  /\ pc' = "built"
  /\ UNCHANGED <<modules, state, frames, loopPos, entered, cycles, metrics, coupling, config, report, calc, first, cliVars>>

(* ------------------------------ detectCycles --------------------------- *)

\* Map.prototype.set
MapSet(m, k, v) == [x \in (DOMAIN m) \cup {k} |-> IF x = k THEN v ELSE m[x]]

\* mutant: the indexed test is lost, every node is visited again
IsIndexedNever(st, node) == FALSE

\* state.indices.has(node): a node that is not indexed yet is visited
IsIndexed(st, node) == node \in DOMAIN st.indices

\* mutant: the on-stack test is lost, every indexed dependency lowers the low-link
IsOnStackAlways(st, dependency) == TRUE

\* state.onStack.has(dependency)
IsOnStack(st, dependency) == dependency \in st.onStack

Min(a, b) == IF a <= b THEN a ELSE b

\* the dependencies strongConnect iterates for node: none if getNode is undefined
DepsOf(nodes, node) ==
  LET graphNode == getNode(nodes, node)
  IN  IF graphNode # <<>> THEN graphNode[1].dependencies ELSE <<>>

\* strongConnect, entry: index and low-link assigned, node pushed
Enter(st, node) ==
  [st EXCEPT !.indices = MapSet(@, node, st.index),
             !.lowLinks = MapSet(@, node, st.index),
             !.index = @ + 1,
             !.stack = Append(@, node),
             !.onStack = @ \cup {node}]

\* strongConnect, after the recursive call on dependency returned
AfterCall(st, node, dependency) ==
  LET currentLow == st.lowLinks[node]
      depLow == st.lowLinks[dependency]
  IN  [st EXCEPT !.lowLinks = MapSet(@, node, Min(currentLow, depLow))]

\* mutant: a dependency on the stack does not lower the low-link
OnStackEdgeNoUpdate(st, node, dependency) == st

\* strongConnect, dependency already indexed and on the stack
OnStackEdge(st, node, dependency) ==
  LET currentLow == st.lowLinks[node]
      depIndex == st.indices[dependency]
  IN  [st EXCEPT !.lowLinks = MapSet(@, node, Min(currentLow, depIndex))]

\* mutant: the popped node is put in front of the component
RECURSIVE PopComponentUnshift(_, _, _)
PopComponentUnshift(st, node, component) ==
  LET w == st.stack[Len(st.stack)]
      st1 == [st EXCEPT !.stack = SubSeq(@, 1, Len(@) - 1), !.onStack = @ \ {w}]
      c1 == <<w>> \o component
  IN  IF w # node THEN PopComponentUnshift(st1, node, c1)
      ELSE [st |-> st1, component |-> c1]

\* the do-while loop: pop down to and including node
RECURSIVE PopComponent(_, _, _)
PopComponent(st, node, component) ==
  LET w == st.stack[Len(st.stack)]
      st1 == [st EXCEPT !.stack = SubSeq(@, 1, Len(@) - 1), !.onStack = @ \ {w}]
      c1 == Append(component, w)
  IN  IF w # node THEN PopComponent(st1, node, c1)
      ELSE [st |-> st1, component |-> c1]

\* mutant: the component is copied from the stack, the stack is not popped
CloseKeepStack(st, node) ==
  IF st.lowLinks[node] = st.indices[node]
  THEN LET r == PopComponent(st, node, <<>>)
       IN  IF Len(r.component) > 1
           THEN [st EXCEPT !.components = Append(@, r.component)]
           ELSE st
  ELSE st

\* mutant: components of one node are emitted too
CloseEmitSingle(st, node) ==
  IF st.lowLinks[node] = st.indices[node]
  THEN LET r == PopComponent(st, node, <<>>)
       IN  IF Len(r.component) > 0
           THEN [r.st EXCEPT !.components = Append(@, r.component)]
           ELSE r.st
  ELSE st

\* mutant: a closed component is put in front of the components list
CloseUnshift(st, node) ==
  IF st.lowLinks[node] = st.indices[node]
  THEN LET r == PopComponent(st, node, <<>>)
       IN  IF Len(r.component) > 1
           THEN [r.st EXCEPT !.components = <<r.component>> \o @]
           ELSE r.st
  ELSE st

\* strongConnect, after the loop over the dependencies
Close(st, node) ==
  IF st.lowLinks[node] = st.indices[node]
  THEN LET r == PopComponent(st, node, <<>>)
       IN  IF Len(r.component) > 1
           THEN [r.st EXCEPT !.components = Append(@, r.component)]
           ELSE r.st
  ELSE st

\* mutant: the components list is shared by all calls of detectCycles
DetectCyclesBeginShared ==
  /\ pc = "built"
  /\ state' = [EmptyState EXCEPT !.components = state.components]
  /\ loopPos' = 1
  /\ frames' = <<>>
  /\ entered' = [n \in Ids |-> 0]
  /\ pc' = "detect"
  /\ UNCHANGED <<modules, graph, cycles, metrics, coupling, config, report, calc, first, cliVars>>

DetectCyclesBegin ==
  /\ pc = "built"
  /\ state' = EmptyState
  /\ loopPos' = 1
  /\ frames' = <<>>
  /\ entered' = [n \in Ids |-> 0]
  /\ pc' = "detect"
  /\ UNCHANGED <<modules, graph, cycles, metrics, coupling, config, report, calc, first, cliVars>>

\* detectCycles' loop: the node is not indexed, strongConnect is called
VisitRoot ==
  /\ pc = "detect" /\ frames = <<>> /\ loopPos <= Len(getAllNodes(graph))
  /\ LET node == getAllNodes(graph)[loopPos].filePath
     IN  /\ ~IsIndexed(state, node)
         /\ state' = Enter(state, node)
         /\ frames' = <<[node |-> node, pos |-> 1]>>
         /\ entered' = [entered EXCEPT ![node] = @ + 1]
  /\ UNCHANGED <<modules, pc, graph, loopPos, cycles, metrics, coupling, config, report, calc, first, cliVars>>

\* detectCycles' loop: the node is already indexed
SkipRoot ==
  /\ pc = "detect" /\ frames = <<>> /\ loopPos <= Len(getAllNodes(graph))
  /\ IsIndexed(state, getAllNodes(graph)[loopPos].filePath)
  /\ loopPos' = loopPos + 1
  /\ UNCHANGED <<modules, pc, graph, state, frames, entered, cycles, metrics, coupling, config, report, calc, first, cliVars>>

\* strongConnect's loop: the dependency is not indexed, recursive call
Recurse ==
  /\ pc = "detect" /\ frames # <<>>
  /\ LET top == frames[Len(frames)]
         deps == DepsOf(graph, top.node)
     IN  /\ top.pos <= Len(deps)
         /\ ~IsIndexed(state, deps[top.pos])
         /\ state' = Enter(state, deps[top.pos])
         /\ frames' = Append(frames, [node |-> deps[top.pos], pos |-> 1])
         /\ entered' = [entered EXCEPT ![deps[top.pos]] = @ + 1]
  /\ UNCHANGED <<modules, pc, graph, loopPos, cycles, metrics, coupling, config, report, calc, first, cliVars>>

\* strongConnect's loop: the dependency is indexed and on the stack
BackEdge ==
  /\ pc = "detect" /\ frames # <<>>
  /\ LET top == frames[Len(frames)]
         deps == DepsOf(graph, top.node)
     IN  /\ top.pos <= Len(deps)
         /\ IsIndexed(state, deps[top.pos])
         /\ IsOnStack(state, deps[top.pos])
         /\ state' = OnStackEdge(state, top.node, deps[top.pos])
         /\ frames' = [frames EXCEPT ![Len(frames)].pos = @ + 1]
  /\ UNCHANGED <<modules, pc, graph, loopPos, entered, cycles, metrics, coupling, config, report, calc, first, cliVars>>

\* strongConnect's loop: the dependency is indexed and no longer on the stack
SkipEdge ==
  /\ pc = "detect" /\ frames # <<>>
  /\ LET top == frames[Len(frames)]
         deps == DepsOf(graph, top.node)
     IN  /\ top.pos <= Len(deps)
         /\ IsIndexed(state, deps[top.pos])
         /\ ~IsOnStack(state, deps[top.pos])
         /\ frames' = [frames EXCEPT ![Len(frames)].pos = @ + 1]
  /\ UNCHANGED <<modules, pc, graph, state, loopPos, entered, cycles, metrics, coupling, config, report, calc, first, cliVars>>

\* strongConnect's loop is over: close the component and return to the caller,
\* which takes the callee's low-link and moves to its next dependency
Return ==
  /\ pc = "detect" /\ frames # <<>>
  /\ LET top == frames[Len(frames)]
         deps == DepsOf(graph, top.node)
         closed == Close(state, top.node)
         rest == SubSeq(frames, 1, Len(frames) - 1)
     IN  /\ top.pos > Len(deps)
         /\ IF rest = <<>>
            THEN /\ state' = closed
                 /\ frames' = rest
                 /\ loopPos' = loopPos + 1
            ELSE /\ state' = AfterCall(closed, rest[Len(rest)].node, top.node)
                 /\ frames' = [rest EXCEPT ![Len(rest)].pos = @ + 1]
                 /\ loopPos' = loopPos
  /\ UNCHANGED <<modules, pc, graph, entered, cycles, metrics, coupling, config, report, calc, first, cliVars>>

\* detectCycles' loop is over: return state.components
DetectCyclesEnd ==
  /\ pc = "detect" /\ frames = <<>> /\ loopPos > Len(getAllNodes(graph))
  /\ cycles' = state.components
  /\ pc' = "detected"
  /\ UNCHANGED <<modules, graph, state, frames, loopPos, entered, metrics, coupling, config, report, calc, first, cliVars>>

(* -------------------------------- metrics ------------------------------ *)

\* Array.prototype.includes
Includes(s, x) == x \in Range(s)

\* mutant: interfaces are not counted as abstract types
computeAbstractnessClassesOnly(module) ==
  LET abstractClasses == Len(SelectSeq(module.classes, LAMBDA c : c.isAbstract))
      totalTypes == module.totalTypes
  IN  IF totalTypes = 0 THEN Zero ELSE Ratio(abstractClasses, totalTypes)

\* mutant: the ratio is taken over the classes instead of over totalTypes
computeAbstractnessPerClass(module) ==
  LET abstractClasses == Len(SelectSeq(module.classes, LAMBDA c : c.isAbstract))
      abstractTypes == module.interfaces + abstractClasses
      totalTypes == Len(module.classes)
  IN  IF totalTypes = 0 THEN Zero ELSE Ratio(abstractTypes, totalTypes)

computeAbstractness(module) ==
  LET abstractClasses == Len(SelectSeq(module.classes, LAMBDA c : c.isAbstract))
      abstractTypes == module.interfaces + abstractClasses
      totalTypes == module.totalTypes
  IN  IF totalTypes = 0 THEN Zero ELSE Ratio(abstractTypes, totalTypes)

\* mutant: the afferent share is returned
computeInstabilityAfferent(Ca, Ce) ==
  LET total == Ca + Ce
  IN  IF total = 0 THEN Zero ELSE Ratio(Ca, total)

computeInstability(Ca, Ce) ==
  LET total == Ca + Ce
  IN  IF total = 0 THEN Zero ELSE Ratio(Ce, total)

\* mutant: abstractness - instability instead of abstractness + instability - 1
computeDistanceDifference(abstractness, instability) ==
  LET n == abstractness.num * instability.den - instability.num * abstractness.den
      d == abstractness.den * instability.den
  IN  Ratio(IF n < 0 THEN -n ELSE n, d)

\* |abstractness + instability - 1|
computeDistance(abstractness, instability) ==
  LET n == abstractness.num * instability.den + instability.num * abstractness.den
             - abstractness.den * instability.den
      d == abstractness.den * instability.den
  IN  Ratio(IF n < 0 THEN -n ELSE n, d)

\* mutant: the first record with the path is kept
ModuleMapGetFirst(mods, filePath) ==
  LET hits == SelectSeq(mods, LAMBDA m : m.filePath = filePath)
  IN  IF hits = <<>> THEN <<>> ELSE <<hits[1]>>

\* new Map(modules.map(m => [m.filePath, m])).get(filePath): the last record
\* with that path, <<>> if there is none
ModuleMapGet(mods, filePath) ==
  LET hits == SelectSeq(mods, LAMBDA m : m.filePath = filePath)
  IN  IF hits = <<>> THEN <<>> ELSE <<hits[Len(hits)]>>

\* mutant: Ca and Ce read from the wrong edge sets
computeAllMetricsSwapped(nodes, mods, cycleList) ==
  [k \in 1..Len(getAllNodes(nodes)) |->
     LET node == getAllNodes(nodes)[k]
         module == ModuleMapGet(mods, node.filePath)
         moduleCycles == SelectSeq(cycleList, LAMBDA cycle : Includes(cycle, node.filePath))
         Ca == Len(node.dependencies)
         Ce == Len(node.dependents)
         abstractness == IF module # <<>> THEN computeAbstractness(module[1]) ELSE Zero
         instability == computeInstability(Ca, Ce)
         distance == computeDistance(abstractness, instability)
     IN  [filePath |-> node.filePath, Ca |-> Ca, Ce |-> Ce, cycles |-> moduleCycles,
          abstractness |-> abstractness, instability |-> instability,
          distance |-> distance]]

\* mutant: a node without a module record is taken as fully abstract
computeAllMetricsDefaultOne(nodes, mods, cycleList) ==
  [k \in 1..Len(getAllNodes(nodes)) |->
     LET node == getAllNodes(nodes)[k]
         module == ModuleMapGet(mods, node.filePath)
         moduleCycles == SelectSeq(cycleList, LAMBDA cycle : Includes(cycle, node.filePath))
         Ca == Len(node.dependents)
         Ce == Len(node.dependencies)
         abstractness == IF module # <<>> THEN computeAbstractness(module[1]) ELSE One
         instability == computeInstability(Ca, Ce)
         distance == computeDistance(abstractness, instability)
     IN  [filePath |-> node.filePath, Ca |-> Ca, Ce |-> Ce, cycles |-> moduleCycles,
          abstractness |-> abstractness, instability |-> instability,
          distance |-> distance]]

\* mutant: every record lists all the cycles
computeAllMetricsAllCycles(nodes, mods, cycleList) ==
  [k \in 1..Len(getAllNodes(nodes)) |->
     LET node == getAllNodes(nodes)[k]
         module == ModuleMapGet(mods, node.filePath)
         Ca == Len(node.dependents)
         Ce == Len(node.dependencies)
         abstractness == IF module # <<>> THEN computeAbstractness(module[1]) ELSE Zero
         instability == computeInstability(Ca, Ce)
         distance == computeDistance(abstractness, instability)
     IN  [filePath |-> node.filePath, Ca |-> Ca, Ce |-> Ce, cycles |-> cycleList,
          abstractness |-> abstractness, instability |-> instability,
          distance |-> distance]]

computeAllMetrics(nodes, mods, cycleList) ==
  [k \in 1..Len(getAllNodes(nodes)) |->
     LET node == getAllNodes(nodes)[k]
         module == ModuleMapGet(mods, node.filePath)
         moduleCycles == SelectSeq(cycleList, LAMBDA cycle : Includes(cycle, node.filePath))
         Ca == Len(node.dependents)
         Ce == Len(node.dependencies)
         abstractness == IF module # <<>> THEN computeAbstractness(module[1]) ELSE Zero
         instability == computeInstability(Ca, Ce)
         distance == computeDistance(abstractness, instability)
     IN  [filePath |-> node.filePath, Ca |-> Ca, Ce |-> Ce, cycles |-> moduleCycles,
          abstractness |-> abstractness, instability |-> instability,
          distance |-> distance]]

computeCouplingMetrics(nodes, cycleList) ==
  [k \in 1..Len(getAllNodes(nodes)) |->
     LET node == getAllNodes(nodes)[k]
         moduleCycles == SelectSeq(cycleList, LAMBDA cycle : Includes(cycle, node.filePath))
     IN  [filePath |-> node.filePath, Ca |-> Len(node.dependents),
          Ce |-> Len(node.dependencies), cycles |-> moduleCycles]]

\* computeCouplingMetrics(graph, cycles), where a caller wants the coupling only
ComputeCouplingMetrics ==
  /\ pc = "detected"
  /\ coupling' = <<computeCouplingMetrics(graph, cycles)>>
  /\ pc' = "coupled"
  /\ UNCHANGED <<modules, graph, state, frames, loopPos, entered, cycles, metrics,
                 config, report, calc, first, cliVars>>

ComputeAllMetrics ==
  /\ pc = "detected"
  /\ metrics' = computeAllMetrics(graph, modules, cycles)
  /\ pc' = "measured"
  /\ UNCHANGED <<modules, graph, state, frames, loopPos, entered, cycles, coupling, config, report, calc, first, cliVars>>

(* -------------------------------- report ------------------------------- *)

\* modules.reduce((sum, m) => sum + m.<field>.length, 0)
RECURSIVE SumLengths(_, _)
SumLengths(mods, field) ==
  IF mods = <<>> THEN 0 ELSE Len(Head(mods)[field]) + SumLengths(Tail(mods), field)

\* modules.reduce((sum, m) => sum + m.interfaces, 0)
RECURSIVE SumInterfaces(_)
SumInterfaces(mods) ==
  IF mods = <<>> THEN 0 ELSE Head(mods).interfaces + SumInterfaces(Tail(mods))

\* mutant: the run fails only when both gates are violated
generateReportEitherGate(mods, mets, cycleList, cfg) ==
  LET totalImports == SumLengths(mods, "imports")
      totalExports == SumLengths(mods, "exports")
      totalClasses == SumLengths(mods, "classes")
      totalInterfaces == SumInterfaces(mods)
      thresholdViolations ==
        SelectSeq(mets, LAMBDA m : Greater(m.distance, cfg.metrics.thresholds.distance))
      hasCycleViolation == Len(cycleList) > 0 /\ cfg.ci.failOnCycle
      hasThresholdViolation == Len(thresholdViolations) > 0 /\ cfg.ci.failOnThreshold
  IN  [summary |-> [totalModules |-> Len(mods),
                    totalImports |-> totalImports,
                    totalExports |-> totalExports,
                    totalClasses |-> totalClasses,
                    totalInterfaces |-> totalInterfaces,
                    cyclesDetected |-> Len(cycleList)],
       metrics |-> mets,
       violations |-> [cycles |-> cycleList, thresholdExceeded |-> thresholdViolations],
       success |-> ~hasCycleViolation \/ ~hasThresholdViolation]

\* mutant: totalModules counts the metrics records
generateReportCountsRecords(mods, mets, cycleList, cfg) ==
  LET totalImports == SumLengths(mods, "imports")
      totalExports == SumLengths(mods, "exports")
      totalClasses == SumLengths(mods, "classes")
      totalInterfaces == SumInterfaces(mods)
      thresholdViolations ==
        SelectSeq(mets, LAMBDA m : Greater(m.distance, cfg.metrics.thresholds.distance))
      hasCycleViolation == Len(cycleList) > 0 /\ cfg.ci.failOnCycle
      hasThresholdViolation == Len(thresholdViolations) > 0 /\ cfg.ci.failOnThreshold
  IN  [summary |-> [totalModules |-> Len(mets),
                    totalImports |-> totalImports,
                    totalExports |-> totalExports,
                    totalClasses |-> totalClasses,
                    totalInterfaces |-> totalInterfaces,
                    cyclesDetected |-> Len(cycleList)],
       metrics |-> mets,
       violations |-> [cycles |-> cycleList, thresholdExceeded |-> thresholdViolations],
       success |-> ~hasCycleViolation /\ ~hasThresholdViolation]

generateReport(mods, mets, cycleList, cfg) ==
  LET totalImports == SumLengths(mods, "imports")
      totalExports == SumLengths(mods, "exports")
      totalClasses == SumLengths(mods, "classes")
      totalInterfaces == SumInterfaces(mods)
      thresholdViolations ==
        SelectSeq(mets, LAMBDA m : Greater(m.distance, cfg.metrics.thresholds.distance))
      hasCycleViolation == Len(cycleList) > 0 /\ cfg.ci.failOnCycle
      hasThresholdViolation == Len(thresholdViolations) > 0 /\ cfg.ci.failOnThreshold
  IN  [summary |-> [totalModules |-> Len(mods),
                    totalImports |-> totalImports,
                    totalExports |-> totalExports,
                    totalClasses |-> totalClasses,
                    totalInterfaces |-> totalInterfaces,
                    cyclesDetected |-> Len(cycleList)],
       metrics |-> mets,
       violations |-> [cycles |-> cycleList, thresholdExceeded |-> thresholdViolations],
       success |-> ~hasCycleViolation /\ ~hasThresholdViolation]

\* generateReport(modules, metrics, cycles, config); a repeated run keeps its config
GenerateReport ==
  /\ pc = "measured"
  /\ \E cfg \in Configs :
       /\ first # <<>> => cfg = config
       /\ config' = cfg
       /\ report' = <<generateReport(modules, metrics, cycles, cfg)>>
  /\ pc' = "reported"
  /\ UNCHANGED <<modules, graph, state, frames, loopPos, entered, cycles, metrics, coupling,
                 calc, first, cliVars>>

Next ==
  \/ ParseProject
  \/ Construct
  \/ DetectCyclesBegin
  \/ VisitRoot
  \/ SkipRoot
  \/ Recurse
  \/ BackEdge
  \/ SkipEdge
  \/ Return
  \/ DetectCyclesEnd
  \/ ComputeCouplingMetrics
  \/ ComputeAllMetrics
  \/ GenerateReport

Spec == Init /\ [][Next]_vars

\* the steps of a running detectCycles call
DetectStep ==
  \/ VisitRoot
  \/ SkipRoot
  \/ Recurse
  \/ BackEdge
  \/ SkipEdge
  \/ Return
  \/ DetectCyclesEnd

\* a synchronous call that has begun keeps running
FairSpec == Spec /\ WF_vars(DetectStep)

\* a second call of the pipeline on the same module list and configuration;
\* the results of the first call are kept aside, nothing else is touched
RunAgain ==
  /\ pc = "reported" /\ first = <<>>
  /\ first' = <<[graph |-> graph, cycles |-> cycles, metrics |-> metrics,
                 report |-> report[1]]>>
  /\ pc' = "parsed"
  /\ UNCHANGED <<modules, graph, state, frames, loopPos, entered, cycles, metrics,
                 coupling, config, report, calc, cliVars>>

NextTwice ==
  \/ Next
  \/ RunAgain

SpecTwice == Init /\ [][NextTwice]_vars

(* ----------------------------- serialization --------------------------- *)

\* the order of Array.prototype.sort on the identifiers: by code units, which
\* for the one-letter identifiers of IdSeq is their order in IdSeq
Before(x, y) ==
  (CHOOSE i \in 1..Len(IdSeq) : IdSeq[i] = x) < (CHOOSE i \in 1..Len(IdSeq) : IdSeq[i] = y)

\* x put into the sorted sequence s
RECURSIVE Insert(_, _)
Insert(s, x) ==
  IF s = <<>> THEN <<x>>
  ELSE IF Before(x, Head(s)) THEN <<x>> \o s
  ELSE <<Head(s)>> \o Insert(Tail(s), x)

\* [...a].sort()
RECURSIVE Sort(_)
Sort(a) == IF a = <<>> THEN <<>> ELSE Insert(Sort(Tail(a)), Head(a))

\* a.join('|')
RECURSIVE Join(_)
Join(a) ==
  IF a = <<>> THEN ""
  ELSE IF Len(a) = 1 THEN a[1]
  ELSE a[1] \o "|" \o Join(Tail(a))

\* createHash('sha256').update(text).digest('hex').slice(0, 16): a value that
\* is determined by the text
Sha256Prefix(text) == [sha256 |-> text]

\* a.indexOf(x), counted from 1; 0 if x is not in a
IndexOf(a, x) ==
  IF x \in Range(a) THEN CHOOSE i \in 1..Len(a) : a[i] = x /\ \A j \in 1..(i - 1) : a[j] # x
  ELSE 0

\* mutant: the nodes are the sorted paths
normalizeCycleSorted(cycle) ==
  IF Len(cycle) = 0 THEN [id |-> Sha256Prefix(""), nodes |-> <<>>, length |-> 0]
  ELSE LET sorted == Sort(cycle)
           id == Sha256Prefix(Join(sorted))
       IN  [id |-> id, nodes |-> sorted, length |-> Len(cycle)]

normalizeCycle(cycle) ==
  IF Len(cycle) = 0 THEN [id |-> Sha256Prefix(""), nodes |-> <<>>, length |-> 0]
  ELSE LET sorted == Sort(cycle)
           id == Sha256Prefix(Join(sorted))
           minPath == sorted[1]
           minIndex == IndexOf(cycle, minPath)
           normalized == SubSeq(cycle, minIndex, Len(cycle)) \o SubSeq(cycle, 1, minIndex - 1)
       IN  [id |-> id, nodes |-> normalized, length |-> Len(cycle)]

\* serializeGraph: every node with copies of its edge sets, sorted
serializeGraph(nodes) ==
  [nodes |-> [k \in 1..Len(getAllNodes(nodes)) |->
                [filePath |-> getAllNodes(nodes)[k].filePath,
                 dependencies |-> Sort(getAllNodes(nodes)[k].dependencies),
                 dependents |-> Sort(getAllNodes(nodes)[k].dependents)]]]

\* new Date().toISOString(): any time of the clock
Timestamps == {"t1", "t2"}

toSerializable(res, timestamp) ==
  [version |-> "1.0.0", timestamp |-> timestamp, config |-> res.config,
   modules |-> res.modules, graph |-> serializeGraph(res.graph),
   cycles |-> [c \in 1..Len(res.cycles) |-> normalizeCycle(res.cycles[c])],
   metrics |-> res.metrics, report |-> res.report]

(* ------------------------------ command line --------------------------- *)

\* the analyze action up to the call of runAnalysis: the configuration is
\* loaded and the options are read
LoadConfig ==
  /\ pc = "start"
  /\ config' \in CliConfigs
  /\ options' \in [export : BOOLEAN]
  /\ pc' = "scan"
  /\ UNCHANGED <<modules, graph, state, frames, loopPos, entered, cycles, metrics, coupling,
                 report, calc, first, exitCode, stdout, result, exportFile, raised>>

\* scanFiles found no file: exit code 0, runAnalysis returns null
ScanNoFiles ==
  /\ pc = "scan"
  /\ exitCode' = <<0>>
  /\ result' = <<>>
  /\ pc' = "returned"
  /\ UNCHANGED <<modules, graph, state, frames, loopPos, entered, cycles, metrics, coupling,
                 config, report, calc, first, options, stdout, exportFile, raised>>

\* scanFiles found files and parseProject parsed them
ScanAndParse ==
  /\ pc = "scan"
  /\ modules' \in CliLists
  /\ pc' = "parsed"
  /\ UNCHANGED <<graph, state, frames, loopPos, entered, cycles, metrics, coupling, config,
                 report, calc, first, cliVars>>

checkCyclesAndFail(cycleList, failOnCycle) == Len(cycleList) > 0 /\ failOnCycle

\* mutant: the run stops on cycles whatever the output format
StopsOnCyclesAnyFormat(cycleList, cfg) ==
  checkCyclesAndFail(cycleList, cfg.ci.failOnCycle)

\* the test of runAnalysis after detectCycles
StopsOnCycles(cycleList, cfg) ==
  checkCyclesAndFail(cycleList, cfg.ci.failOnCycle) /\ cfg.ci.outputFormat # "json"

\* cycles fail the run and the format is not json: exit code 1, return null
StopOnCycles ==
  /\ pc = "detected"
  /\ StopsOnCycles(cycles, config)
  /\ exitCode' = <<1>>
  /\ result' = <<>>
  /\ pc' = "returned"
  /\ UNCHANGED <<modules, graph, state, frames, loopPos, entered, cycles, metrics, coupling,
                 config, report, calc, first, options, stdout, exportFile, raised>>

\* otherwise the run goes on with computeAllMetrics
CliComputeAllMetrics ==
  /\ ~StopsOnCycles(cycles, config)
  /\ ComputeAllMetrics

\* mutant: the exit code is 0 whenever the report was printed
ExitCodeOfPrinted(rep) == 0

\* process.exitCode after the report
ExitCodeOf(rep) == IF ~rep.success THEN 1 ELSE 0

\* generateReport, print the report in the configured format, set the exit
\* code and return the AnalysisResult
ReportAndReturn ==
  /\ pc = "measured"
  /\ LET rep == generateReport(modules, metrics, cycles, config)
     IN  /\ report' = <<rep>>
         /\ stdout' = Append(stdout, [format |-> config.ci.outputFormat, report |-> rep])
         /\ exitCode' = <<ExitCodeOf(rep)>>
         /\ result' = <<[modules |-> modules, graph |-> graph, cycles |-> cycles,
                         metrics |-> metrics, report |-> rep, config |-> config]>>
  /\ pc' = "returned"
  /\ UNCHANGED <<modules, graph, state, frames, loopPos, entered, cycles, metrics, coupling,
                 config, calc, first, options, exportFile, raised>>

\* the test of the analyze action before exportToFile
ExportWanted(res, opts) == res # <<>> /\ opts.export

\* mutant: the edge sets of the graph itself are replaced by the sorted ones
ExportToFileInPlace ==
  /\ pc = "returned"
  /\ ExportWanted(result, options)
  /\ \E timestamp \in Timestamps :
       exportFile' = <<toSerializable(result[1], timestamp)>>
  /\ graph' = serializeGraph(graph).nodes
  /\ pc' = "exited"
  /\ UNCHANGED <<modules, state, frames, loopPos, entered, cycles, metrics, coupling,
                 config, report, calc, first, options, exitCode, stdout, result, raised>>

\* exportToFile writes the serialized result
ExportToFile ==
  /\ pc = "returned"
  /\ ExportWanted(result, options)
  /\ \E timestamp \in Timestamps :
       exportFile' = <<toSerializable(result[1], timestamp)>>
  /\ pc' = "exited"
  /\ UNCHANGED <<modules, graph, state, frames, loopPos, entered, cycles, metrics, coupling,
                 config, report, calc, first, options, exitCode, stdout, result, raised>>

\* no export: the action ends
Exit ==
  /\ pc = "returned"
  /\ ~ExportWanted(result, options)
  /\ pc' = "exited"
  /\ UNCHANGED <<modules, graph, state, frames, loopPos, entered, cycles, metrics, coupling,
                 config, report, calc, first, cliVars>>

\* scanFiles, parseProject or exportToFile throws: the catch sets exit code 1
CatchError ==
  /\ \/ pc = "scan"
     \/ pc = "returned" /\ ExportWanted(result, options)
  /\ exitCode' = <<1>>
  /\ raised' = TRUE
  /\ pc' = "exited"
  /\ UNCHANGED <<modules, graph, state, frames, loopPos, entered, cycles, metrics, coupling,
                 config, report, calc, first, options, stdout, result, exportFile>>

NextCli ==
  \/ LoadConfig
  \/ ScanNoFiles
  \/ ScanAndParse
  \/ Construct
  \/ DetectCyclesBegin
  \/ VisitRoot
  \/ SkipRoot
  \/ Recurse
  \/ BackEdge
  \/ SkipEdge
  \/ Return
  \/ DetectCyclesEnd
  \/ StopOnCycles
  \/ CliComputeAllMetrics
  \/ ReportAndReturn
  \/ ExportToFile
  \/ Exit
  \/ CatchError

SpecCli == Init /\ [][NextCli]_vars

\* the exit code of the process: 0 when process.exitCode was never set
ProcessExitCode == IF exitCode = <<>> THEN 0 ELSE exitCode[1]

(* ------------------- direct calls of the metric functions -------------- *)

\* module records a caller can hand over; totalTypes is a field of its own
DeclaredModules ==
  {[filePath |-> "a", imports |-> <<>>, exports |-> <<>>,
    classes |-> cs, interfaces |-> i, totalTypes |-> t] :
     cs \in SeqsUpTo({[isAbstract |-> TRUE], [isAbstract |-> FALSE]}, MaxDeclared),
     i \in 0..MaxDeclared, t \in 0..(MaxDeclared + MaxDeclared)}

\* the numbers n / d, 0 <= n <= 2d, d <= MaxDen
Numbers == {Ratio(n, d) : n \in 0..(MaxDen + MaxDen), d \in 1..MaxDen}

CallAbstractness ==
  /\ \E m \in DeclaredModules :
       calc' = [fn |-> "abstractness", module |-> m, result |-> computeAbstractness(m)]
  /\ UNCHANGED <<modules, pc, graph, state, frames, loopPos, entered, cycles, metrics,
                 coupling, config, report, first, cliVars>>

CallInstability ==
  /\ \E Ca \in 0..MaxCoupling, Ce \in 0..MaxCoupling :
       calc' = [fn |-> "instability", Ca |-> Ca, Ce |-> Ce,
                result |-> computeInstability(Ca, Ce)]
  /\ UNCHANGED <<modules, pc, graph, state, frames, loopPos, entered, cycles, metrics,
                 coupling, config, report, first, cliVars>>

CallDistance ==
  /\ \E A \in Numbers, I \in Numbers :
       calc' = [fn |-> "distance", A |-> A, I |-> I, result |-> computeDistance(A, I)]
  /\ UNCHANGED <<modules, pc, graph, state, frames, loopPos, entered, cycles, metrics,
                 coupling, config, report, first, cliVars>>

CallNormalizeCycle ==
  /\ \E cycle \in SeqsUpTo(Ids, MaxCycleLen) :
       calc' = [fn |-> "normalizeCycle", cycle |-> cycle, result |-> normalizeCycle(cycle)]
  /\ UNCHANGED <<modules, pc, graph, state, frames, loopPos, entered, cycles, metrics,
                 coupling, config, report, first, cliVars>>

NextCalc ==
  \/ CallAbstractness
  \/ CallInstability
  \/ CallDistance
  \/ CallNormalizeCycle

SpecCalc == Init /\ [][NextCalc]_vars

(* ----------------- reference notions the claims are stated in ---------- *)

\* the (from, to) import pairs of a module list
ImportPairs(mods) ==
  UNION {{<<mods[i].filePath, mods[i].imports[j]>> : j \in 1..Len(mods[i].imports)} :
         i \in 1..Len(mods)}

\* how many times the pair occurs in the module list
Occurrences(mods, pair) ==
  Cardinality(UNION {{<<i, j>> : j \in {x \in 1..Len(mods[i].imports) :
                                          <<mods[i].filePath, mods[i].imports[x]>> = pair}} :
                     i \in 1..Len(mods)})

ModuleIds(mods) == {mods[i].filePath : i \in 1..Len(mods)}

TargetIds(mods) == {p[2] : p \in ImportPairs(mods)}

Dependencies(A) == UNION {Range(graph[k].dependencies) : k \in {i \in 1..Len(graph) : graph[i].filePath = A}}

Dependents(A) == UNION {Range(graph[k].dependents) : k \in {i \in 1..Len(graph) : graph[i].filePath = A}}

NodeIds == {graph[k].filePath : k \in 1..Len(graph)}

\* ids reachable from the ids of S along one or more dependency edges
RECURSIVE ReachFrom(_, _)
ReachFrom(S, seen) ==
  LET next == UNION {Dependencies(A) : A \in S}
  IN  IF next \subseteq seen THEN seen ELSE ReachFrom(next \ seen, seen \cup next)

Reaches(A, B) == B \in ReachFrom({A}, {})

\* the strongly connected component of A
SCC(A) == {A} \cup {B \in NodeIds : Reaches(A, B) /\ Reaches(B, A)}

Built == pc \notin {"start", "parsed"}

Measured == pc \in {"measured", "reported"}

\* 0 <= x <= 1
InUnitInterval(x) == x.den > 0 /\ 0 <= x.num /\ x.num <= x.den

\* non-negative counts, total type count = classes + interfaces
WellFormed(mods) ==
  \A i \in 1..Len(mods) :
    /\ mods[i].interfaces >= 0
    /\ mods[i].totalTypes = Len(mods[i].classes) + mods[i].interfaces

Detected == pc \in {"detected", "coupled", "measured", "reported"}

(* -------------------------------- claims ------------------------------- *)

\* C1: edge symmetry: for all identifiers A and B of a constructed graph,
\* B is in dependencies(A) if and only if A is in dependents(B).
C1_EdgeSymmetry ==
  \A A \in Ids, B \in Ids : (B \in Dependencies(A)) <=> (A \in Dependents(B))

C1_Witness ==
  /\ pc = "built"
  /\ \E A \in Ids, B \in Ids : A # B /\ B \in Dependencies(A) /\ A \in Dependents(B)

\* C2: the node set is exactly the identifiers seen as a module or as an import
\* target, one node each; getNode is undefined for every other identifier; a
\* node that is only an import target has no dependencies and some dependent.
C2_NodeSet ==
  Built =>
    /\ \A id \in Ids :
         Len(getNode(graph, id)) = (IF id \in ModuleIds(modules) \cup TargetIds(modules) THEN 1 ELSE 0)
    /\ Len(getAllNodes(graph)) = Cardinality(ModuleIds(modules) \cup TargetIds(modules))
    /\ \A id \in TargetIds(modules) \ ModuleIds(modules) :
         Dependencies(id) = {} /\ Dependents(id) # {}

C2_Witness ==
  /\ pc = "built"
  /\ \E id \in TargetIds(modules) \ ModuleIds(modules) : getNode(graph, id) # <<>>
  /\ \E id \in Ids : getNode(graph, id) = <<>>

\* C3: a repeated (from, to) pair counts once: every node's dependency set is
\* the set of its distinct targets and its dependent set the set of its
\* distinct importers, each held without repetition.
C3_Idempotent ==
  Built =>
    \A k \in 1..Len(graph) :
      LET targets == {p[2] : p \in {q \in ImportPairs(modules) : q[1] = graph[k].filePath}}
          importers == {p[1] : p \in {q \in ImportPairs(modules) : q[2] = graph[k].filePath}}
      IN  /\ Range(graph[k].dependencies) = targets
          /\ Len(graph[k].dependencies) = Cardinality(targets)
          /\ Range(graph[k].dependents) = importers
          /\ Len(graph[k].dependents) = Cardinality(importers)

C3_Witness ==
  /\ pc = "built"
  /\ \E p \in ImportPairs(modules) :
       /\ Occurrences(modules, p) >= 2
       /\ Dependencies(p[1]) = {p[2]}

\* C4: every returned cycle has at least 2 identifiers, none twice, and each
\* of its identifiers reaches every other one along dependency edges.
C4_Sound ==
  Detected =>
    \A c \in 1..Len(cycles) :
      /\ Len(cycles[c]) >= 2
      /\ Cardinality(Range(cycles[c])) = Len(cycles[c])
      /\ \A A \in Range(cycles[c]), B \in Range(cycles[c]) : A # B => Reaches(A, B)

C4_Witness ==
  /\ pc = "detected"
  /\ \E c \in 1..Len(cycles) : Len(cycles[c]) = 3

\* C5: the membership sets of the returned cycles are exactly the strongly
\* connected components with 2 or more nodes, each returned once.
C5_Complete ==
  Detected =>
    /\ {Range(cycles[c]) : c \in 1..Len(cycles)} =
         {SCC(A) : A \in {B \in NodeIds : Cardinality(SCC(B)) >= 2}}
    /\ Len(cycles) = Cardinality({SCC(A) : A \in {B \in NodeIds : Cardinality(SCC(B)) >= 2}})
    /\ \A A \in NodeIds, B \in NodeIds :
         (A # B /\ Reaches(A, B) /\ Reaches(B, A)) =>
           \E c \in 1..Len(cycles) : {A, B} \subseteq Range(cycles[c])
    /\ (\A A \in NodeIds, B \in NodeIds : A # B => ~(Reaches(A, B) /\ Reaches(B, A)))
         => cycles = <<>>

C5_Witness ==
  /\ pc = "detected"
  /\ Len(cycles) = 2
  /\ \A c \in 1..Len(cycles) : Len(cycles[c]) = 2

\* C6: no identifier appears in more than one returned cycle.
C6_Partition ==
  Detected =>
    \A c \in 1..Len(cycles), e \in 1..Len(cycles) :
      c # e => Range(cycles[c]) \cap Range(cycles[e]) = {}

C6_Witness ==
  /\ pc = "detected"
  /\ Len(cycles) = 2
  /\ \E A \in Range(cycles[1]), B \in Range(cycles[2]) : Reaches(B, A)

\* C7: a self import A -> A is recorded in the graph (A is in its own
\* dependency and dependent set), and A is not reported unless it is on a
\* cycle through another node.
C7_SelfImport ==
  \A A \in Ids :
    <<A, A>> \in ImportPairs(modules) =>
      /\ Built => (A \in Dependencies(A) /\ A \in Dependents(A))
      /\ (Detected /\ SCC(A) = {A}) => \A c \in 1..Len(cycles) : A \notin Range(cycles[c])

C7_Witness ==
  /\ pc = "detected"
  /\ \E A \in Ids :
       /\ <<A, A>> \in ImportPairs(modules)
       /\ A \in Dependencies(A)
       /\ SCC(A) = {A}
       /\ Dependencies(A) # {A}
       /\ cycles = <<>>

\* C8: the traversal uses an explicit work stack: strongConnect is never
\* active inside another strongConnect, so the native call depth of
\* detectCycles does not grow with the length of a dependency path.
C8_NoNativeRecursion == Len(frames) <= 1

C10_Coupling ==
  /\ pc \in {"measured", "reported"} =>
       /\ Len(metrics) = Len(getAllNodes(graph))
       /\ \A k \in 1..Len(metrics) :
            /\ metrics[k].filePath = graph[k].filePath
            /\ metrics[k].Ca = Cardinality(Range(graph[k].dependents))
            /\ metrics[k].Ce = Cardinality(Range(graph[k].dependencies))
  /\ coupling # <<>> =>
       /\ Len(coupling[1]) = Len(getAllNodes(graph))
       /\ \A k \in 1..Len(coupling[1]) :
            /\ coupling[1][k].filePath = graph[k].filePath
            /\ coupling[1][k].Ca = Cardinality(Range(graph[k].dependents))
            /\ coupling[1][k].Ce = Cardinality(Range(graph[k].dependencies))

\* the chain a -> b, b -> c
C10_Witness ==
  /\ pc = "measured"
  /\ ImportPairs(modules) = {<<"a", "b">>, <<"b", "c">>}
  /\ \E k \in 1..Len(metrics) :
       metrics[k].filePath = "a" /\ metrics[k].Ca = 0 /\ metrics[k].Ce = 1
  /\ \E k \in 1..Len(metrics) :
       metrics[k].filePath = "c" /\ metrics[k].Ca = 1 /\ metrics[k].Ce = 0

\* C11: abstractness is 0 when the total type count is 0, and otherwise
\* (classes flagged abstract + interfaces) / total type count.
C11_Abstractness ==
  calc.fn = "abstractness" =>
    LET m == calc.module
        flagged == Cardinality({i \in 1..Len(m.classes) : m.classes[i].isAbstract})
    IN  IF m.totalTypes = 0
        THEN calc.result.num = 0
        ELSE calc.result.num * m.totalTypes = calc.result.den * (flagged + m.interfaces)

\* 2 interfaces and 2 concrete classes: 1/2
C11_Witness ==
  /\ calc.fn = "abstractness"
  /\ calc.module.interfaces = 2
  /\ calc.module.classes = <<[isAbstract |-> FALSE], [isAbstract |-> FALSE]>>
  /\ calc.module.totalTypes = 4
  /\ calc.result = [num |-> 1, den |-> 2]

\* C12: instability is 0 when Ca + Ce = 0 and Ce / (Ca + Ce) otherwise: 0 when
\* Ce = 0, 1 when Ca = 0 and Ce > 0.
C12_Instability ==
  calc.fn = "instability" =>
    /\ calc.Ca + calc.Ce = 0 => calc.result.num = 0
    /\ calc.Ca + calc.Ce # 0 =>
         calc.result.num * (calc.Ca + calc.Ce) = calc.result.den * calc.Ce
    /\ calc.Ce = 0 => calc.result = [num |-> 0, den |-> 1]
    /\ (calc.Ca = 0 /\ calc.Ce > 0) => calc.result = [num |-> 1, den |-> 1]

\* computeInstability(3, 1) = 1/4
C12_Witness ==
  /\ calc.fn = "instability"
  /\ calc.Ca = 3 /\ calc.Ce = 1
  /\ calc.result = [num |-> 1, den |-> 4]

\* C13: distance(A, I) = |A + I - 1|: 0 when A + I = 1, 1 at (0, 0) and at
\* (1, 1), and distance(A, I) = distance(I, A).
C13_Distance ==
  calc.fn = "distance" =>
    LET A == calc.A
        I == calc.I
        sum == A.num * I.den + I.num * A.den
        one == A.den * I.den
        abs == IF sum >= one THEN sum - one ELSE one - sum
    IN  /\ calc.result.num * one = calc.result.den * abs
        /\ sum = one => calc.result.num = 0
        /\ (A.num = 0 /\ I.num = 0) => calc.result = [num |-> 1, den |-> 1]
        /\ (A.num = A.den /\ I.num = I.den) => calc.result = [num |-> 1, den |-> 1]
        /\ computeDistance(I, A) = calc.result

\* distance(1/4, 3/4) = 0 with A # I
C13_Witness ==
  /\ calc.fn = "distance"
  /\ calc.A = [num |-> 1, den |-> 4] /\ calc.I = [num |-> 3, den |-> 4]
  /\ calc.result = [num |-> 0, den |-> 1]

\* C14: for a well-formed module list, abstractness, instability and distance
\* of every metrics record lie in [0, 1].
C14_UnitInterval ==
  (Measured /\ WellFormed(modules)) =>
    \A k \in 1..Len(metrics) :
      /\ InUnitInterval(metrics[k].abstractness)
      /\ InUnitInterval(metrics[k].instability)
      /\ InUnitInterval(metrics[k].distance)

\* a record with all three values strictly inside the interval
C14_Witness ==
  /\ pc = "measured" /\ WellFormed(modules)
  /\ \E k \in 1..Len(metrics) :
       /\ 0 < metrics[k].abstractness.num
       /\ metrics[k].abstractness.num < metrics[k].abstractness.den
       /\ 0 < metrics[k].instability.num
       /\ metrics[k].instability.num < metrics[k].instability.den
       /\ 0 < metrics[k].distance.num
       /\ metrics[k].distance.num < metrics[k].distance.den

\* C15: a node without a module record gets abstractness 0, and Ca, Ce,
\* instability and distance from its edge sets alone.
C15_NoModuleRecord ==
  Measured =>
    \A k \in 1..Len(metrics) :
      metrics[k].filePath \notin ModuleIds(modules) =>
        LET Ca == Cardinality(Dependents(metrics[k].filePath))
            Ce == Cardinality(Dependencies(metrics[k].filePath))
            I == metrics[k].instability
            D == metrics[k].distance
        IN  /\ metrics[k].abstractness = [num |-> 0, den |-> 1]
            /\ metrics[k].Ca = Ca
            /\ metrics[k].Ce = Ce
            /\ I.num * (Ca + Ce) = I.den * Ce
            /\ D.num * I.den = D.den * (I.den - I.num)

C15_Witness ==
  /\ pc = "measured"
  /\ \E k \in 1..Len(metrics) :
       /\ metrics[k].filePath \notin ModuleIds(modules)
       /\ metrics[k].Ca = 2
  /\ \E k \in 1..Len(metrics) :
       /\ metrics[k].filePath \in ModuleIds(modules)
       /\ metrics[k].abstractness.num > 0

\* C16: the cycles field of a record is the sub-list of the detected cycles
\* that contain its identifier: one entry for a node inside a cycle, none for
\* any other node.
C16_CyclesField ==
  Measured =>
    \A k \in 1..Len(metrics) :
      LET id == metrics[k].filePath
          mine == {c \in 1..Len(cycles) : id \in Range(cycles[c])}
      IN  /\ Len(metrics[k].cycles) = Cardinality(mine)
          /\ Range(metrics[k].cycles) = {cycles[c] : c \in mine}
          /\ Len(metrics[k].cycles) = (IF Cardinality(SCC(id)) >= 2 THEN 1 ELSE 0)

\* a <-> b and an isolated c
C16_Witness ==
  /\ pc = "measured"
  /\ ImportPairs(modules) = {<<"a", "b">>, <<"b", "a">>}
  /\ \E k \in 1..Len(metrics) : metrics[k].filePath = "a" /\ Len(metrics[k].cycles) = 1
  /\ \E k \in 1..Len(metrics) : metrics[k].filePath = "b" /\ Len(metrics[k].cycles) = 1
  /\ \E k \in 1..Len(metrics) : metrics[k].filePath = "c" /\ metrics[k].cycles = <<>>

\* the indices of the records whose distance is strictly above the threshold
Exceeding ==
  {k \in 1..Len(metrics) :
     metrics[k].distance.num * config.metrics.thresholds.distance.den >
       config.metrics.thresholds.distance.num * metrics[k].distance.den}

\* the j-th smallest member of a set of indices
Nth(K, j) == CHOOSE k \in K : Cardinality({x \in K : x < k}) = j - 1

\* C17: violations.thresholdExceeded holds exactly the metrics records whose
\* distance is strictly greater than the threshold, in their original order;
\* a distance equal to the threshold is no violation.
C17_ThresholdExceeded ==
  pc = "reported" =>
    LET exceeded == report[1].violations.thresholdExceeded
    IN  /\ Len(exceeded) = Cardinality(Exceeding)
        /\ \A j \in 1..Len(exceeded) : exceeded[j] = metrics[Nth(Exceeding, j)]
        /\ \A k \in 1..Len(metrics) :
             metrics[k].distance = config.metrics.thresholds.distance =>
               metrics[k] \notin Range(exceeded)

\* two records reported around one whose distance equals the threshold
C17_Witness ==
  /\ pc = "reported"
  /\ Len(report[1].violations.thresholdExceeded) = 2
  /\ \E k \in 2..(Len(metrics) - 1) :
       /\ metrics[k].distance = config.metrics.thresholds.distance
       /\ report[1].violations.thresholdExceeded = <<metrics[k - 1], metrics[k + 1]>>

\* C18: success is true exactly when neither enabled gate is violated: not
\* (failOnCycle and some cycle) and not (failOnThreshold and some record above
\* the threshold).
C18_Success ==
  pc = "reported" =>
    (report[1].success <=>
       (/\ ~(config.ci.failOnCycle /\ cycles # <<>>)
        /\ ~(config.ci.failOnThreshold /\ Exceeding # {})))

\* cycles and records above the threshold, both gates disabled: success
C18_Witness ==
  /\ pc = "reported"
  /\ cycles # <<>>
  /\ Exceeding # {}
  /\ ~config.ci.failOnCycle
  /\ ~config.ci.failOnThreshold
  /\ report[1].success
  /\ report[1].violations.cycles # <<>>
  /\ report[1].violations.thresholdExceeded # <<>>

\* the entries of a list field over all module records
Entries(field) ==
  UNION {{<<i, j>> : j \in 1..Len(modules[i][field])} : i \in 1..Len(modules)}

\* the interfaces over all module records
InterfaceEntries ==
  UNION {{<<i, j>> : j \in 1..modules[i].interfaces} : i \in 1..Len(modules)}

\* C19: the summary counts the module records, sums the lengths of their
\* imports, exports and classes lists and their interface counts, and
\* cyclesDetected is the number of cycles, the length of violations.cycles.
C19_Summary ==
  pc = "reported" =>
    /\ report[1].summary.totalModules = Len(modules)
    /\ report[1].summary.totalImports = Cardinality(Entries("imports"))
    /\ report[1].summary.totalExports = Cardinality(Entries("exports"))
    /\ report[1].summary.totalClasses = Cardinality(Entries("classes"))
    /\ report[1].summary.totalInterfaces = Cardinality(InterfaceEntries)
    /\ report[1].summary.cyclesDetected = Len(cycles)
    /\ report[1].summary.cyclesDetected = Len(report[1].violations.cycles)

\* two records with types, and a node that has no record
C19_Witness ==
  /\ pc = "reported"
  /\ report[1].summary.totalModules = 2
  /\ report[1].summary.totalImports = 2
  /\ report[1].summary.totalInterfaces = 1
  /\ report[1].summary.totalClasses = 1
  /\ Len(metrics) = 3
  /\ report[1].summary.cyclesDetected = Len(report[1].violations.cycles)

\* C20: a second run of the pipeline on the same module list and
\* configuration gives the same graph, the same cycles in the same order, the
\* same metrics and the same report as the first.
C20_Deterministic ==
  first # <<>> =>
    /\ Built => graph = first[1].graph
    /\ Detected => cycles = first[1].cycles
    /\ Measured => metrics = first[1].metrics
    /\ pc = "reported" => report[1] = first[1].report

\* the second run has ended, on a list with two cycles and a failed report
C20_Witness ==
  /\ first # <<>>
  /\ pc = "reported"
  /\ Len(cycles) = 2
  /\ ~report[1].success
  /\ state.components = first[1].cycles

\* some record computeAllMetrics gives the run's graph lies strictly above the
\* configured distance threshold
SomeModuleExceeds ==
  \E k \in 1..Len(graph) :
    LET A == IF graph[k].filePath \in ModuleIds(modules)
             THEN computeAbstractness(ModuleMapGet(modules, graph[k].filePath)[1])
             ELSE Zero
        D == computeDistance(A, computeInstability(Len(graph[k].dependents),
                                                   Len(graph[k].dependencies)))
    IN  D.num * config.metrics.thresholds.distance.den >
          config.metrics.thresholds.distance.num * D.den

\* C21: a command line run that finds files and raises no exception exits
\* with 1 if failOnCycle is set and a cycle was detected, or failOnThreshold
\* is set and a module exceeds the threshold, and with 0 otherwise, in both
\* output formats; a run that finds no file exits with 0.
C21_ExitCode ==
  (pc = "exited" /\ ~raised) =>
    IF modules = <<>>
    THEN ProcessExitCode = 0
    ELSE ProcessExitCode =
           (IF \/ config.ci.failOnCycle /\ cycles # <<>>
               \/ config.ci.failOnThreshold /\ SomeModuleExceeds
            THEN 1 ELSE 0)

\* a json run with a cycle and failOnCycle set has ended with exit code 1
C21_Witness ==
  /\ pc = "exited" /\ ~raised
  /\ config.ci.outputFormat = "json"
  /\ config.ci.failOnCycle /\ ~config.ci.failOnThreshold
  /\ cycles # <<>>
  /\ ProcessExitCode = 1

\* the positions of the records of an identifier in the module list
RecordsOf(id) == {i \in 1..Len(modules) : modules[i].filePath = id}

\* the last record of an identifier in the module list
LastRecord(id) == modules[CHOOSE i \in RecordsOf(id) : \A j \in RecordsOf(id) : j <= i]

\* C22: an identifier that occurs more than once in the module list has a
\* single node, whose dependency set is the union of the import targets of
\* all its occurrences, and its abstractness is that of its last occurrence.
C22_Duplicates ==
  Measured =>
    \A id \in ModuleIds(modules) :
      Cardinality(RecordsOf(id)) >= 2 =>
        /\ Cardinality({k \in 1..Len(graph) : graph[k].filePath = id}) = 1
        /\ Dependencies(id) =
             UNION {Range(modules[i].imports) : i \in RecordsOf(id)}
        /\ \A k \in 1..Len(metrics) :
             metrics[k].filePath = id =>
               LET last == LastRecord(id)
                   abstractTypes ==
                     last.interfaces +
                       Cardinality({c \in 1..Len(last.classes) : last.classes[c].isAbstract})
                   A == metrics[k].abstractness
               IN  IF last.totalTypes = 0
                   THEN A.num = 0
                   ELSE A.num * last.totalTypes = A.den * abstractTypes

\* two records of "a": an interface importing one target, then a concrete
\* class importing another
C22_Witness ==
  /\ pc = "measured"
  /\ Len(modules) = 2
  /\ modules[1].filePath = "a" /\ modules[2].filePath = "a"
  /\ modules[1].interfaces = 1 /\ modules[1].classes = <<>>
  /\ modules[2].interfaces = 0 /\ Len(modules[2].classes) = 1
  /\ ~modules[2].classes[1].isAbstract
  /\ Cardinality(Dependencies("a")) = 2
  /\ \E k \in 1..Len(metrics) : metrics[k].filePath = "a" /\ metrics[k].abstractness.num = 0

\* C23: each cycle lists its members in strictly decreasing discovery index:
\* the most recently discovered member first, the closing node (low-link
\* equal to its own index) last.
C23_PopOrder ==
  pc \in {"detect", "detected"} =>
    \A c \in 1..Len(state.components) :
      LET cycle == state.components[c]
          closing == cycle[Len(cycle)]
      IN  /\ \A i, j \in 1..Len(cycle) :
               i < j => state.indices[cycle[i]] > state.indices[cycle[j]]
          /\ state.lowLinks[closing] = state.indices[closing]
          /\ \A i \in 1..(Len(cycle) - 1) :
               state.lowLinks[cycle[i]] # state.indices[cycle[i]]
          /\ pc = "detected" => cycles[c] = cycle

\* a returned cycle of three members
C23_Witness ==
  /\ pc = "detected"
  /\ \E c \in 1..Len(cycles) :
       /\ Len(cycles[c]) = 3
       /\ state.indices[cycles[c][1]] = state.indices[cycles[c][3]] + 2

\* the cycle rotated to start at its k-th member
Rotation(cycle, k) == SubSeq(cycle, k, Len(cycle)) \o SubSeq(cycle, 1, k - 1)

\* C24: for a non-empty cycle of distinct identifiers, the nodes normalizeCycle
\* returns are the rotation of the input that starts at its smallest
\* identifier, the length is the input's, every rotation of the input gives
\* the same nodes and the same id, and the id depends on the member set only.
C24_Canonical ==
  (/\ calc.fn = "normalizeCycle"
   /\ calc.cycle # <<>>
   /\ Cardinality(Range(calc.cycle)) = Len(calc.cycle)) =>
    /\ \E k \in 1..Len(calc.cycle) : calc.result.nodes = Rotation(calc.cycle, k)
    /\ \A x \in Range(calc.cycle) :
         x # calc.result.nodes[1] => Before(calc.result.nodes[1], x)
    /\ calc.result.length = Len(calc.cycle)
    /\ \A k \in 1..Len(calc.cycle) :
         /\ normalizeCycle(Rotation(calc.cycle, k)).nodes = calc.result.nodes
         /\ normalizeCycle(Rotation(calc.cycle, k)).id = calc.result.id
    /\ \A other \in SeqsUpTo(Ids, MaxCycleLen) :
         (Range(other) = Range(calc.cycle) /\ Len(other) = Len(calc.cycle)) =>
           normalizeCycle(other).id = calc.result.id

\* a cycle of three that does not start at its smallest member
C24_Witness ==
  /\ calc.fn = "normalizeCycle"
  /\ calc.cycle = <<"c", "a", "b">>
  /\ calc.result.nodes = <<"a", "b", "c">>
  /\ calc.result.id = normalizeCycle(<<"b", "c", "a">>).id

\* C25: once the graph is built, detectCycles, computeAllMetrics,
\* generateReport and serializeGraph leave the node set and every node's
\* dependency and dependent sets as they are, and generateReport leaves the
\* module list, the metrics list and the cycle list it is given as they are.
C25_ReadOnly ==
  [][/\ Built => graph' = graph
     /\ pc = "measured" => (modules' = modules /\ metrics' = metrics /\ cycles' = cycles)
     /\ pc' = "exited" =>
          (result' # <<>> => (/\ result'[1].graph = DependencyGraph(modules)
                              /\ result'[1].graph = graph'))]_vars

\* a graph whose edge sets are not in sorted order was serialized and is
\* still as it was built
C25_Witness ==
  /\ pc = "exited"
  /\ exportFile # <<>>
  /\ report # <<>>
  /\ \E k \in 1..Len(graph) :
       /\ graph[k].dependencies # Sort(graph[k].dependencies)
       /\ exportFile[1].graph.nodes[k].dependencies = Sort(graph[k].dependencies)
  /\ graph = DependencyGraph(modules)

\* the sum of a numeric field over the metrics records
RECURSIVE SumOver(_, _)
SumOver(records, field) ==
  IF records = <<>> THEN 0 ELSE Head(records)[field] + SumOver(Tail(records), field)

\* C26: the sum of Ca over all metrics records equals the sum of Ce, and both
\* equal the number of distinct (from, to) import pairs of the input; a
\* self-import counts once on each side.
C26_CouplingSums ==
  Measured =>
    /\ SumOver(metrics, "Ca") = SumOver(metrics, "Ce")
    /\ SumOver(metrics, "Ce") = Cardinality(ImportPairs(modules))

\* a self-import, a repeated import and a second target
C26_Witness ==
  /\ pc = "measured"
  /\ \E x \in Ids : <<x, x>> \in ImportPairs(modules)
  /\ \E pair \in ImportPairs(modules) : Occurrences(modules, pair) >= 2
  /\ SumOver(metrics, "Ca") = 2

\* C27: a node that is only an import target has Ce = 0, Ca >= 1,
\* abstractness 0, instability 0 and distance exactly 1; for every threshold
\* below 1 it is listed in violations.thresholdExceeded, and then with
\* failOnThreshold set the report's success is false.
C27_DanglingTarget ==
  pc = "reported" =>
    \A k \in 1..Len(metrics) :
      metrics[k].filePath \notin ModuleIds(modules) =>
        /\ metrics[k].Ce = 0
        /\ metrics[k].Ca >= 1
        /\ metrics[k].abstractness.num = 0
        /\ metrics[k].instability.num = 0
        /\ metrics[k].distance.num = metrics[k].distance.den
        /\ config.metrics.thresholds.distance.num < config.metrics.thresholds.distance.den =>
             /\ metrics[k] \in Range(report[1].violations.thresholdExceeded)
             /\ config.ci.failOnThreshold => ~report[1].success

\* one record with one import of a file that has no record, default
\* configuration: the report fails
C27_Witness ==
  /\ pc = "reported"
  /\ Len(modules) = 1
  /\ Len(modules[1].imports) = 1
  /\ modules[1].imports[1] \notin ModuleIds(modules)
  /\ config = defaultConfig
  /\ cycles = <<>>
  /\ Len(report[1].violations.thresholdExceeded) = 1
  /\ ~report[1].success

\* C28: a node whose metrics list a cycle has Ca >= 1 and Ce >= 1 and so an
\* instability strictly between 0 and 1; a node with Ca = 0 or Ce = 0 is in
\* no reported cycle.
C28_CycleMembers ==
  Measured =>
    \A k \in 1..Len(metrics) :
      /\ metrics[k].cycles # <<>> =>
           /\ metrics[k].Ca >= 1
           /\ metrics[k].Ce >= 1
           /\ 0 < metrics[k].instability.num
           /\ metrics[k].instability.num < metrics[k].instability.den
      /\ (metrics[k].Ca = 0 \/ metrics[k].Ce = 0) =>
           \A c \in 1..Len(cycles) : metrics[k].filePath \notin Range(cycles[c])

\* a cycle of two, one member imported from outside the cycle as well
C28_Witness ==
  /\ pc = "measured"
  /\ \E k \in 1..Len(metrics) :
       /\ metrics[k].cycles # <<>>
       /\ metrics[k].Ca = 2
       /\ metrics[k].Ce = 1
  /\ \E k \in 1..Len(metrics) : metrics[k].Ca = 0 /\ metrics[k].Ce = 1

\* C29: the cycles are returned in a reverse topological order of the
\* components: if a node of a returned cycle X reaches a node of another
\* returned cycle Y along dependency edges, Y comes before X in the list.
C29_ReverseTopological ==
  Detected =>
    \A x, y \in 1..Len(cycles) :
      (/\ x # y
       /\ \E A \in Range(cycles[x]), B \in Range(cycles[y]) : Reaches(A, B)) => y < x

\* two cycles, the one that holds the first node of the enumeration depends
\* on the other and is returned after it
C29_Witness ==
  /\ pc = "detected"
  /\ Len(cycles) = 2
  /\ graph[1].filePath \in Range(cycles[2])
  /\ \E A \in Range(cycles[2]), B \in Range(cycles[1]) : Reaches(A, B)

\* C30: with console output, failOnCycle set and a cycle detected, the
\* command line run stops after cycle detection: no metrics, no printed
\* report, no result, and a requested export file is never written; with json
\* output the run goes on through metrics and report, prints the report with
\* success = false and writes the export file when it is requested.
C30_EarlyStop ==
  (/\ pc \in {"detected", "measured", "returned", "exited"}
   /\ config.ci.failOnCycle
   /\ cycles # <<>>
   /\ ~raised) =>
    IF config.ci.outputFormat # "json"
    THEN /\ pc # "measured"
         /\ metrics = <<>>
         /\ report = <<>>
         /\ stdout = <<>>
         /\ result = <<>>
         /\ exportFile = <<>>
         /\ pc \in {"returned", "exited"} => exitCode = <<1>>
    ELSE /\ pc \in {"returned", "exited"} =>
              /\ metrics = computeAllMetrics(graph, modules, cycles)
              /\ Len(stdout) = 1
              /\ stdout[1].format = "json"
              /\ stdout[1].report = report[1]
              /\ ~report[1].success
              /\ result # <<>>
              /\ result[1].report = report[1]
         /\ pc = "exited" =>
              IF options.export
              THEN /\ exportFile # <<>>
                   /\ exportFile[1].report = report[1]
              ELSE exportFile = <<>>

\* a console run with an export requested has stopped on a cycle
C30_Witness ==
  /\ pc = "exited" /\ ~raised
  /\ config.ci.outputFormat = "console"
  /\ config.ci.failOnCycle
  /\ cycles # <<>>
  /\ options.export
  /\ exportFile = <<>>
  /\ stdout = <<>>
  /\ exitCode = <<1>>

====
